---- MODULE Spec2Model ----
(***************************************************************************)
(* Resume Filtering System: the upload directory (src/main.py) and the     *)
(* text-extraction / keyword-scoring pipeline (src/utils/parser.py).       *)
(*                                                                         *)
(* Strings are sequences of one-character strings, so that splitext,       *)
(* lower, strip and the substring test are computed, not assumed.          *)
(* Storage faults (an I/O error in open, copyfileobj or os.remove) are     *)
(* outside the model: every write and remove on the directory succeeds.    *)
(***************************************************************************)
EXTENDS Integers, Sequences, FiniteSets, TLC

VARIABLES store, listing, req, resp, io

vars == <<store, listing, req, resp, io>>

\* ---------------------------------------------------------------- bounds
MaxBatch == 2

MaxKeywords == 2

\* ------------------------------------------------------- string helpers
UpperLetters == <<"A","B","C","D","E","F","G","H","I","J","K","L","M","N","O","P","Q","R","S","T","U","V","W","X","Y","Z">>

LowerLetters == <<"a","b","c","d","e","f","g","h","i","j","k","l","m","n","o","p","q","r","s","t","u","v","w","x","y","z">>

Whitespace == {" ", "\n", "\t", "\r"}

lower_char(c) ==
  IF \E i \in 1..Len(UpperLetters) : UpperLetters[i] = c
  THEN LowerLetters[CHOOSE i \in 1..Len(UpperLetters) : UpperLetters[i] = c]
  ELSE c

RECURSIVE lower(_)
lower(s) == IF s = <<>> THEN <<>> ELSE <<lower_char(Head(s))>> \o lower(Tail(s))

\* str.strip(): drop leading and trailing whitespace
strip(s) ==
  LET idx == {i \in 1..Len(s) : s[i] \notin Whitespace}
  IN IF idx = {} THEN <<>>
     ELSE LET lo == CHOOSE i \in idx : \A j \in idx : i <= j
              hi == CHOOSE i \in idx : \A j \in idx : i >= j
          IN SubSeq(s, lo, hi)

\* needle in hay
contains(hay, needle) ==
  \E i \in 1..(Len(hay) - Len(needle) + 1) : SubSeq(hay, i, i + Len(needle) - 1) = needle

\* str.rfind(c): 1-based index of the last occurrence, 0 when there is none
rfind(p, c) ==
  LET idx == {i \in 1..Len(p) : p[i] = c}
  IN IF idx = {} THEN 0 ELSE CHOOSE i \in idx : \A j \in idx : i >= j

\* os.path.splitext: the extension starts at the last dot that follows the
\* last separator, unless only dots precede it in the file name
splitext(p) ==
  LET sepIndex == rfind(p, "/")
      dotIndex == rfind(p, ".")
  IN IF dotIndex > sepIndex /\ \E k \in (sepIndex + 1)..(dotIndex - 1) : p[k] # "."
     THEN <<SubSeq(p, 1, dotIndex - 1), SubSeq(p, dotIndex, Len(p))>>
     ELSE <<p, <<>> >>

\* os.path.join(a, b) for a relative b
path_join(a, b) == a \o <<"/">> \o b

\* ------------------------------------------------------------ constants
UPLOAD_DIR == <<"u","p","l","o","a","d","s">>

ALLOWED_EXTENSIONS == { <<".","p","d","f">>, <<".","d","o","c","x">> }

is_allowed_file(filename) == lower(splitext(filename)[2]) \in ALLOWED_EXTENSIONS

\* ------------------------------------------------------ parser.py model
\* Optional[str]
None == [some |-> FALSE, val |-> <<>>]

Some(t) == [some |-> TRUE, val |-> t]

\* a page whose extract_text() raises
BadPage == [ok |-> FALSE, text |-> <<>>]

Page(t) == [ok |-> TRUE, text |-> t]

RECURSIVE pdf_pages_text(_)
pdf_pages_text(pages) ==
  IF pages = <<>> THEN <<>>
  ELSE Head(pages).text \o <<"\n">> \o pdf_pages_text(Tail(pages))

\* PdfReader raises on bytes that are not a PDF; a page may raise; any
\* exception is caught and None is returned
extract_text_from_pdf(blob) ==
  IF blob.fmt # "pdf" THEN None
  ELSE IF \E i \in 1..Len(blob.parts) : ~blob.parts[i].ok THEN None
  ELSE Some(strip(pdf_pages_text(blob.parts)))

RECURSIVE join_newline(_)
join_newline(paras) ==
  IF paras = <<>> THEN <<>>
  ELSE IF Len(paras) = 1 THEN Head(paras).text
  ELSE Head(paras).text \o <<"\n">> \o join_newline(Tail(paras))

extract_text_from_docx(blob) ==
  IF blob.fmt # "docx" THEN None
  ELSE Some(strip(join_newline(blob.parts)))

extract_text(file_path, blob) ==
  LET extension == lower(splitext(file_path)[2])
  IN IF extension = <<".","p","d","f">> THEN extract_text_from_pdf(blob)
     ELSE IF extension = <<".","d","o","c","x">> THEN extract_text_from_docx(blob)
     ELSE None

\* `not text` for an Optional[str]
py_not_is_none(text) == ~text.some

py_not(text) == ~text.some \/ text.val = <<>>

RECURSIVE search_loop_case_sensitive(_, _)
search_loop_case_sensitive(text_lower, keywords) ==
  IF keywords = <<>> THEN <<>>
  ELSE (IF contains(text_lower, Head(keywords)) THEN <<Head(keywords)>> ELSE <<>>)
         \o search_loop_case_sensitive(text_lower, Tail(keywords))

RECURSIVE search_loop(_, _)
search_loop(text_lower, keywords) ==
  IF keywords = <<>> THEN <<>>
  ELSE (IF contains(text_lower, lower(Head(keywords))) THEN <<Head(keywords)>> ELSE <<>>)
         \o search_loop(text_lower, Tail(keywords))

\* text.lower() on None raises AttributeError
search_keywords(text, keywords) ==
  IF py_not(text) THEN [matched_keywords |-> <<>>, score |-> 0]
  ELSE IF ~text.some THEN [raised |-> "AttributeError"]
  ELSE LET matched == search_loop(lower(text.val), keywords)
       IN [matched_keywords |-> matched, score |-> Len(matched)]

\* --------------------------------------------------------- main.py model
\* `if text:` for an Optional[str]
py_truthy(text) == text.some /\ text.val # <<>>

\* the names returned by os.listdir, in its order, that have an allowed extension
get_uploaded_resumes(ls) == SelectSeq(ls, is_allowed_file)

\* open(file_path, "wb") + copyfileobj: create or overwrite the file
write_if_absent(s, filename, blob) ==
  [x \in DOMAIN s \cup {filename} |-> IF x \in DOMAIN s THEN s[x] ELSE blob]

write(s, filename, blob) ==
  [x \in DOMAIN s \cup {filename} |-> IF x = filename THEN blob ELSE s[x]]

\* os.remove(file_path)
remove(s, filename) == [x \in DOMAIN s \ {filename} |-> s[x]]

IoOp(op, name) == [op |-> op, name |-> name]

RECURSIVE upload_loop(_, _, _, _)
upload_loop(s, files, uploaded_files, trace) ==
  IF files = <<>>
  THEN [status |-> 200,
        body |-> [message |-> <<"Resumes uploaded successfully">>,
                  files |-> uploaded_files,
                  count |-> Len(uploaded_files)],
        store |-> s, io |-> trace]
  ELSE LET file == Head(files)
       IN IF ~is_allowed_file(file.filename)
          THEN [status |-> 400,
                body |-> [detail |-> <<"File", file.filename,
                                       "has invalid extension. Only PDF and DOCX allowed.">>],
                store |-> s, io |-> trace]
          ELSE upload_loop(write(s, file.filename, file.file), Tail(files),
                           Append(uploaded_files, file.filename),
                           Append(trace, IoOp("write", file.filename)))

upload_resumes(s, files) ==
  IF files = <<>>
  THEN [status |-> 400, body |-> [detail |-> <<"No files provided">>],
        store |-> s, io |-> <<>>]
  ELSE upload_loop(s, files, <<>>, <<>>)

\* the loop stops at the first document whose extraction fails
RECURSIVE filter_loop_break(_, _, _)
filter_loop_break(resumes, s, keywords) ==
  IF resumes = <<>> THEN [matched |-> <<>>, io |-> <<>>]
  ELSE LET filename == Head(resumes)
           text == extract_text(path_join(UPLOAD_DIR, filename), s[filename])
           result == search_keywords(text, keywords)
           rest == filter_loop_break(Tail(resumes), s, keywords)
       IN IF ~text.some THEN [matched |-> <<>>, io |-> <<IoOp("read", filename)>>]
          ELSE [matched |-> (IF py_truthy(text) /\ result.score > 0
                             THEN <<[filename |-> filename,
                                     matched_keywords |-> result.matched_keywords,
                                     score |-> result.score]>>
                             ELSE <<>>) \o rest.matched,
                io |-> <<IoOp("read", filename)>> \o rest.io]

RECURSIVE filter_loop(_, _, _)
filter_loop(resumes, s, keywords) ==
  IF resumes = <<>> THEN [matched |-> <<>>, io |-> <<>>]
  ELSE LET filename == Head(resumes)
           text == extract_text(path_join(UPLOAD_DIR, filename), s[filename])
           result == search_keywords(text, keywords)
           rest == filter_loop(Tail(resumes), s, keywords)
       IN [matched |-> (IF py_truthy(text) /\ result.score > 0
                        THEN <<[filename |-> filename,
                                matched_keywords |-> result.matched_keywords,
                                score |-> result.score]>>
                        ELSE <<>>) \o rest.matched,
           io |-> <<IoOp("read", filename)>> \o rest.io]

\* list.sort(key=score, reverse=True): descending, equal keys keep their order
RECURSIVE sort_by_score_desc_unstable(_)
sort_by_score_desc_unstable(l) ==
  IF l = <<>> THEN <<>>
  ELSE LET sorted == sort_by_score_desc_unstable(SubSeq(l, 1, Len(l) - 1))
           x == l[Len(l)]
           pos == Cardinality({i \in 1..Len(sorted) : sorted[i].score > x.score})
       IN SubSeq(sorted, 1, pos) \o <<x>> \o SubSeq(sorted, pos + 1, Len(sorted))

RECURSIVE sort_by_score_desc(_)
sort_by_score_desc(l) ==
  IF l = <<>> THEN <<>>
  ELSE LET sorted == sort_by_score_desc(SubSeq(l, 1, Len(l) - 1))
           x == l[Len(l)]
           pos == Cardinality({i \in 1..Len(sorted) : sorted[i].score >= x.score})
       IN SubSeq(sorted, 1, pos) \o <<x>> \o SubSeq(sorted, pos + 1, Len(sorted))

filter_result(s, ls, keywords) ==
  LET resumes == get_uploaded_resumes(ls)
  IN IF resumes = <<>>
     THEN [status |-> 200,
           body |-> [message |-> <<"No resumes found">>,
                     matched_resumes |-> <<>>,
                     total_resumes |-> 0],
           store |-> s, io |-> <<IoOp("listdir", UPLOAD_DIR)>>]
     ELSE LET loop == filter_loop(resumes, s, keywords)
              matched_resumes == sort_by_score_desc(loop.matched)
          IN [status |-> 200,
              body |-> [message |-> <<"Found", Len(matched_resumes), "matching resumes">>,
                        matched_resumes |-> matched_resumes,
                        total_resumes |-> Len(resumes),
                        keywords_searched |-> keywords],
              store |-> s, io |-> <<IoOp("listdir", UPLOAD_DIR)>> \o loop.io]

\* the directory is listed before the keyword list is checked
filter_resumes_list_first(s, ls, keywords) ==
  IF keywords = <<>>
  THEN [status |-> 400, body |-> [detail |-> <<"No keywords provided">>],
        store |-> s, io |-> <<IoOp("listdir", UPLOAD_DIR)>>]
  ELSE filter_result(s, ls, keywords)

\* documents whose extraction failed are removed from the directory
filter_resumes_purging(s, ls, keywords) ==
  IF keywords = <<>>
  THEN [status |-> 400, body |-> [detail |-> <<"No keywords provided">>],
        store |-> s, io |-> <<>>]
  ELSE LET r == filter_result(s, ls, keywords)
           keep == {x \in DOMAIN s :
                      ~is_allowed_file(x) \/ extract_text(path_join(UPLOAD_DIR, x), s[x]).some}
       IN [r EXCEPT !.store = [x \in keep |-> s[x]]]

filter_resumes(s, ls, keywords) ==
  IF keywords = <<>>
  THEN [status |-> 400, body |-> [detail |-> <<"No keywords provided">>],
        store |-> s, io |-> <<>>]
  ELSE filter_result(s, ls, keywords)

get_resumes(s, ls) ==
  LET resumes == get_uploaded_resumes(ls)
  IN [status |-> 200,
      body |-> [resumes |-> resumes, count |-> Len(resumes)],
      store |-> s, io |-> <<IoOp("listdir", UPLOAD_DIR)>>]

\* os.remove is called without the os.path.exists test
delete_resume_unchecked(s, filename) ==
  IF filename \notin DOMAIN s
  THEN [status |-> 500, body |-> [detail |-> <<"Failed to delete resume">>],
        store |-> s, io |-> <<IoOp("remove", filename)>>]
  ELSE [status |-> 200,
        body |-> [message |-> <<"Resume", filename, "deleted successfully">>],
        store |-> remove(s, filename),
        io |-> <<IoOp("remove", filename)>>]

delete_resume(s, filename) ==
  IF filename \notin DOMAIN s
  THEN [status |-> 404, body |-> [detail |-> <<"Resume not found">>],
        store |-> s, io |-> <<IoOp("exists", filename)>>]
  ELSE [status |-> 200,
        body |-> [message |-> <<"Resume", filename, "deleted successfully">>],
        store |-> remove(s, filename),
        io |-> <<IoOp("exists", filename), IoOp("remove", filename)>>]

\* ------------------------------------------------------------ input sets
A_PDF == <<"a",".","p","d","f">>

B_DOCX == <<"b",".","d","o","c","x">>

C_PDF_UPPER == <<"c",".","P","D","F">>

N_TXT == <<"n",".","t","x","t">>

DOT_PDF == <<".","p","d","f">>

FileNames == {A_PDF, B_DOCX, C_PDF_UPPER, N_TXT, DOT_PDF}

\* extracts to "Py\nSQ"
PdfPySq == [fmt |-> "pdf", parts |-> <<Page(<<"P","y">>), Page(<<"S","Q">>)>>]

\* extracts to "py"
PdfPy == [fmt |-> "pdf", parts |-> <<Page(<<" ","p","y">>)>>]

\* the second page fails to parse
PdfBadPage == [fmt |-> "pdf", parts |-> <<Page(<<"P","y">>), BadPage>>]

\* paragraphs "Py" and "": extracts to "Py"
DocxPy == [fmt |-> "docx", parts |-> <<Page(<<"P","y">>), Page(<<>>)>>]

\* bytes that are neither a PDF nor a DOCX
Junk == [fmt |-> "junk", parts |-> <<>>]

UploadFiles ==
  { [filename |-> A_PDF, file |-> PdfPySq],
    [filename |-> A_PDF, file |-> PdfBadPage],
    [filename |-> B_DOCX, file |-> DocxPy],
    [filename |-> B_DOCX, file |-> Junk],
    [filename |-> C_PDF_UPPER, file |-> PdfPy],
    [filename |-> N_TXT, file |-> Junk],
    [filename |-> DOT_PDF, file |-> PdfPy] }

Batches == UNION {[1..n -> UploadFiles] : n \in 0..MaxBatch}

Keywords == { <<"P","Y">>, <<"s","q">>, <<"j">>, <<>> }

KeywordLists == UNION {[1..n -> Keywords] : n \in 0..MaxKeywords}

ScorerTexts ==
  { None, Some(<<>>), Some(<<"P","y","\n","S","Q">>), Some(<<"p","y">>),
    Some(<<" ">>), Some(<<"j">>) }

EmptyStore == [x \in {} |-> Junk]

NoRequest == [op |-> "none"]

NoResponse == [status |-> 0, body |-> [detail |-> <<>>]]

Response(r) == [status |-> r.status, body |-> r.body]

Orderings(S) ==
  {f \in [1..Cardinality(S) -> S] : \A i, j \in 1..Cardinality(S) : f[i] = f[j] => i = j}

\* os.listdir order is filesystem-defined: it stays as it is while the set
\* of directory entries is the same and is arbitrary once an entry was
\* created or removed
NextListings(ls, s) ==
  IF DOMAIN s = {ls[i] : i \in 1..Len(ls)} THEN {ls} ELSE Orderings(DOMAIN s)

\* --------------------------------------------------------- state machine
\* os.makedirs(UPLOAD_DIR, exist_ok=True): the directory is new, or it
\* already exists and may hold a file the application did not write
Init ==
  /\ store \in {EmptyStore, [x \in {N_TXT} |-> Junk]}
  /\ listing \in Orderings(DOMAIN store)
  /\ req = NoRequest
  /\ resp = NoResponse
  /\ io = <<>>

Apply(request, r) ==
  /\ req' = request
  /\ resp' = Response(r)
  /\ io' = r.io
  /\ store' = r.store
  /\ listing' \in NextListings(listing, r.store)

\* The handlers have no await: each request runs to completion before the
\* next one is taken.  req, resp and io are the handler's arguments, its
\* response and the directory operations it made; they are dropped when the
\* response has been sent.
Idle == req = NoRequest

Upload ==
  /\ Idle
  /\ \E files \in Batches :
       Apply([op |-> "upload", files |-> files], upload_resumes(store, files))

Filter ==
  /\ Idle
  /\ \E keywords \in KeywordLists :
       Apply([op |-> "filter", keywords |-> keywords, repeated |-> FALSE],
             filter_resumes(store, listing, keywords))

\* the client sends the filter request it has just sent once more
RepeatFilter ==
  /\ req.op = "filter"
  /\ Apply([req EXCEPT !.repeated = TRUE], filter_resumes(store, listing, req.keywords))

GetResumes ==
  /\ Idle
  /\ Apply([op |-> "get_resumes"], get_resumes(store, listing))

Delete ==
  /\ Idle
  /\ \E filename \in FileNames :
       Apply([op |-> "delete", filename |-> filename], delete_resume(store, filename))

ResponseSent ==
  /\ ~Idle
  /\ req' = NoRequest
  /\ resp' = NoResponse
  /\ io' = <<>>
  /\ UNCHANGED <<store, listing>>

Next == Upload \/ Filter \/ RepeatFilter \/ GetResumes \/ Delete \/ ResponseSent

Spec == Init /\ [][Next]_vars

\* ---------------------------------------------- search_keywords in isolation
InitScorer ==
  /\ store = EmptyStore
  /\ listing = <<>>
  /\ io = <<>>
  /\ req \in {[op |-> "search_keywords", text |-> t, keywords |-> k] :
                t \in ScorerTexts, k \in KeywordLists}
  /\ resp = [returned |-> FALSE]

SearchKeywords ==
  /\ req.op = "search_keywords"
  /\ ~resp.returned
  /\ resp' = [returned |-> TRUE, value |-> search_keywords(req.text, req.keywords)]
  /\ UNCHANGED <<store, listing, req, io>>

NextScorer == SearchKeywords

SpecScorer == InitScorer /\ [][NextScorer]_vars

\* ------------------------------------------------------------ properties
StoredResumes == {x \in DOMAIN store : is_allowed_file(x)}

ExtractedText(x) == extract_text(path_join(UPLOAD_DIR, x), store[x])

Position(x) == CHOOSE i \in 1..Len(listing) : listing[i] = x

BatchNames(files) == {files[i].filename : i \in 1..Len(files)}

LastBlob(files, x) ==
  files[CHOOSE i \in 1..Len(files) :
          /\ files[i].filename = x
          /\ \A j \in 1..Len(files) : files[j].filename = x => j <= i].file

ExpectedMatches(T, K) ==
  LET hit(k) == contains(lower(T), lower(k)) IN SelectSeq(K, hit)

\* C1 (as stated): an upload batch with a disallowed extension at any
\* position is rejected with the invalid-extension error and leaves the
\* store as it was.
C1_UploadAllOrNothing ==
  [][(/\ req'.op = "upload"
      /\ \E i \in 1..Len(req'.files) : ~is_allowed_file(req'.files[i].filename))
     => (/\ resp'.status = 400
         /\ resp'.body.detail[1] = "File"
         /\ store' = store)]_vars

\* C2 (as stated): for every text T, the empty text included, and every
\* keyword list K, search_keywords returns the subsequence of K whose
\* lowercase forms are substrings of lower(T), and its length as the score.
C2_AllTexts ==
  (req.op = "search_keywords" /\ resp.returned /\ req.text.some)
  => LET expected == ExpectedMatches(req.text.val, req.keywords)
     IN resp.value = [matched_keywords |-> expected, score |-> Len(expected)]

\* C2 (amended): the same, for every non-empty text T.
C2_NonEmptyTexts ==
  (req.op = "search_keywords" /\ resp.returned /\ req.text.some /\ req.text.val # <<>>)
  => LET expected == ExpectedMatches(req.text.val, req.keywords)
     IN resp.value = [matched_keywords |-> expected, score |-> Len(expected)]

C2_Witness ==
  /\ req.op = "search_keywords"
  /\ resp.returned
  /\ req.text = Some(<<"P","y","\n","S","Q">>)
  /\ req.keywords = << <<"P","Y">>, <<"P","Y">> >>
  /\ resp.value.score = 2

\* C3: an accepted filter request returns exactly the stored documents with
\* an allowed extension whose score is positive, each with its matched
\* keywords and score, by descending score, ties in directory-listing order.
C3_FilterResult ==
  (req.op = "filter" /\ req.keywords # <<>>)
  => LET m == resp.body.matched_resumes
         Score(x) == search_keywords(ExtractedText(x), req.keywords)
     IN /\ \A i \in 1..Len(m) :
             /\ m[i].filename \in StoredResumes
             /\ Score(m[i].filename).score > 0
             /\ m[i].matched_keywords = Score(m[i].filename).matched_keywords
             /\ m[i].score = Score(m[i].filename).score
        /\ \A x \in StoredResumes :
             Score(x).score > 0 => Cardinality({i \in 1..Len(m) : m[i].filename = x}) = 1
        /\ \A i, j \in 1..Len(m) :
             i < j => /\ m[i].score >= m[j].score
                      /\ m[i].score = m[j].score
                           => Position(m[i].filename) < Position(m[j].filename)

C3_Witness ==
  /\ req.op = "filter"
  /\ resp.status = 200
  /\ Len(resp.body.matched_resumes) = 3
  /\ resp.body.matched_resumes[1].score = 2
  /\ resp.body.matched_resumes[2].score = 1
  /\ resp.body.matched_resumes[3].score = 1
  /\ Position(resp.body.matched_resumes[1].filename)
       > Position(resp.body.matched_resumes[3].filename)

\* C4 (as stated): every accepted filter request, on the empty store too,
\* returns the number of listed documents and echoes the keyword list.
C4_CountAndEcho ==
  (req.op = "filter" /\ resp.status = 200)
  => /\ "total_resumes" \in DOMAIN resp.body
     /\ resp.body.total_resumes = Cardinality(StoredResumes)
     /\ "keywords_searched" \in DOMAIN resp.body
     /\ resp.body.keywords_searched = req.keywords

C6_EmptyKeywords ==
  [][(req'.op = "filter" /\ req'.keywords = <<>>)
     => /\ resp'.status = 400
        /\ resp'.body.detail = <<"No keywords provided">>
        /\ io' = <<>>
        /\ store' = store
        /\ listing' = listing]_vars

C6_Witness ==
  /\ req.op = "filter"
  /\ req.keywords = <<>>
  /\ resp.status = 400
  /\ Cardinality(StoredResumes) >= 2

\* C7: search_keywords returns no matches and score 0, without raising,
\* whenever the text is None or the empty string.
C7_AbsentOrEmptyText ==
  (req.op = "search_keywords" /\ resp.returned
     /\ (~req.text.some \/ req.text.val = <<>>))
  => resp.value = [matched_keywords |-> <<>>, score |-> 0]

C7_Witness ==
  /\ req.op = "search_keywords"
  /\ resp.returned
  /\ req.text = Some(<<>>)
  /\ req.keywords = << <<>>, <<"P","Y">> >>

\* C8: a filter request never changes the store, and the same filter
\* request sent again with nothing in between gets the same response.
C8_FilterIdempotent ==
  [][/\ req'.op = "filter" => (store' = store /\ listing' = listing)
     /\ (req.op = "filter" /\ req'.op = "filter" /\ req'.keywords = req.keywords)
          => resp' = resp]_vars

C8_Witness ==
  /\ req.op = "filter"
  /\ req.repeated
  /\ resp.status = 200
  /\ Len(resp.body.matched_resumes) >= 2
  /\ \E x \in StoredResumes : ~ExtractedText(x).some

\* C9: an extraction failure is never raised to the caller of a filter
\* request: extract_text returns None, the failing document is left out of
\* the results, and every other listed document is still read and scored.
ExtractionFails(x) ==
  \/ lower(splitext(x)[2]) = <<".","p","d","f">> /\ store[x].fmt # "pdf"
  \/ lower(splitext(x)[2]) = <<".","d","o","c","x">> /\ store[x].fmt # "docx"
  \/ \E i \in 1..Len(store[x].parts) : ~store[x].parts[i].ok

C9_ExtractionFailureContained ==
  (req.op = "filter" /\ req.keywords # <<>>)
  => LET m == resp.body.matched_resumes
         returned == {m[i].filename : i \in 1..Len(m)}
     IN /\ resp.status = 200
        /\ \A x \in StoredResumes :
             /\ IoOp("read", x) \in {io[i] : i \in 1..Len(io)}
             /\ ExtractionFails(x) => (ExtractedText(x) = None /\ x \notin returned)
             /\ (~ExtractionFails(x)
                   /\ search_keywords(ExtractedText(x), req.keywords).score > 0)
                  => x \in returned

C9_Witness ==
  /\ req.op = "filter"
  /\ resp.status = 200
  /\ \E x, y \in StoredResumes :
       /\ Position(x) < Position(y)
       /\ ExtractionFails(x)
       /\ \E i \in 1..Len(resp.body.matched_resumes) :
            resp.body.matched_resumes[i].filename = y

====
